---------------------------- MODULE Spec2Model ----------------------------
(***************************************************************************)
(* City Fighting (app.py): the city-data aggregation pipeline.             *)
(*                                                                         *)
(* One run of the Streamlit script loads the housing table                 *)
(* (logement_data = load_logement_data(), a fresh copy of the cached       *)
(* table), then calls get_ville_data(ville1) and get_ville_data(ville2).   *)
(* An uncaught exception aborts the run.  A widget interaction reruns the  *)
(* script.                                                                 *)
(*                                                                         *)
(* Python values are modelled as follows.                                  *)
(*   - a str is a sequence of one-character strings;                       *)
(*   - a dict is a function whose DOMAIN is its set of keys, so that       *)
(*     d[k] raises KeyError exactly when k \notin DOMAIN d;                *)
(*   - a cell of the INSEE_COM column is [t, v] with t the Python type     *)
(*     ("int", "float", "str", "nan", "none");                             *)
(*   - an HTTP exchange is [status, body]; status "exception" is a         *)
(*     network error, a timeout or a body that is not JSON.                *)
(***************************************************************************)
EXTENDS Integers, Sequences, FiniteSets, TLC

VARIABLES cache, logement_data, pc, call1, call2

vars == <<cache, logement_data, pc, call1, call2>>

---------------------------------------------------------------------------
(* Strings *)

Digits == {"0", "1", "2", "3", "4", "5", "6", "7", "8", "9"}

DigitVal(c) ==
    CASE c = "0" -> 0 [] c = "1" -> 1 [] c = "2" -> 2 [] c = "3" -> 3
      [] c = "4" -> 4 [] c = "5" -> 5 [] c = "6" -> 6 [] c = "7" -> 7
      [] c = "8" -> 8 [] c = "9" -> 9

DigitChar(n) ==
    CASE n = 0 -> "0" [] n = 1 -> "1" [] n = 2 -> "2" [] n = 3 -> "3"
      [] n = 4 -> "4" [] n = 5 -> "5" [] n = 6 -> "6" [] n = 7 -> "7"
      [] n = 8 -> "8" [] n = 9 -> "9"

\* str.lower(), over the letters the model's city names use.
LowerChar(c) ==
    CASE c = "L" -> "l" [] c = "Y" -> "y" [] c = "O" -> "o" [] c = "N" -> "n"
      [] c = "P" -> "p" [] c = "A" -> "a" [] c = "R" -> "r" [] c = "I" -> "i"
      [] c = "S" -> "s" [] OTHER -> c

Lower(s) == [i \in DOMAIN s |-> LowerChar(s[i])]

\* str(n) for an int n >= 0.
RECURSIVE IntToStr(_)
IntToStr(n) ==
    IF n < 10 THEN <<DigitChar(n)>>
    ELSE IntToStr(n \div 10) \o <<DigitChar(n % 10)>>

\* The value of a sequence of decimal digits (0 for the empty sequence).
RECURSIVE DigitsVal(_)
DigitsVal(s) ==
    IF s = <<>> THEN 0
    ELSE 10 * DigitsVal(SubSeq(s, 1, Len(s) - 1)) + DigitVal(s[Len(s)])

ZfillWidth == 5

\* s.zfill(w): left-pad with "0" to width w; never truncates.
RECURSIVE Zfill(_, _)
Zfill(s, w) == IF Len(s) >= w THEN s ELSE Zfill(<<"0">> \o s, w)

\* int(float(s)) for a str s: digits, then optionally "." and digits.  Any
\* other text makes float() raise ValueError.
ParseFloat(s) ==
    LET dots == {i \in DOMAIN s : s[i] = "."}
        wellFormed == /\ \A i \in DOMAIN s : s[i] \in Digits \cup {"."}
                      /\ Cardinality(dots) <= 1
                      /\ \E i \in DOMAIN s : s[i] \in Digits
        intLen == IF dots = {} THEN Len(s) ELSE (CHOOSE i \in dots : TRUE) - 1
    IN  IF wellFormed
        THEN [ok |-> TRUE, int |-> DigitsVal(SubSeq(s, 1, intLen))]
        ELSE [ok |-> FALSE, int |-> 0]

---------------------------------------------------------------------------
(* Cells of the INSEE_COM column *)

IntCell(n) == [t |-> "int", v |-> n]
\* The float n.0
FloatCell(n) == [t |-> "float", v |-> n]
StrCell(s) == [t |-> "str", v |-> s]
NaNCell == [t |-> "nan", v |-> 0]
NoneCell == [t |-> "none", v |-> 0]

\* A bug a refactoring could introduce: only numeric cells are normalised and
\* text cells are dropped.
MutNormalizeNumericOnly(x) ==
    IF x.t \in {"int", "float"}
    THEN [raised |-> FALSE, value |-> StrCell(Zfill(IntToStr(x.v), ZfillWidth))]
    ELSE [raised |-> FALSE, value |-> NoneCell]

\* lambda x: str(int(float(x))).zfill(5) if pd.notnull(x) else None
NormalizeCell(x) ==
    IF x.t \in {"nan", "none"}
    THEN [raised |-> FALSE, value |-> NoneCell]
    ELSE IF x.t \in {"int", "float"}
    THEN [raised |-> FALSE, value |-> StrCell(Zfill(IntToStr(x.v), ZfillWidth))]
    ELSE LET f == ParseFloat(x.v)
         IN  IF f.ok
             THEN [raised |-> FALSE,
                   value |-> StrCell(Zfill(IntToStr(f.int), ZfillWidth))]
             ELSE [raised |-> TRUE, value |-> x]

---------------------------------------------------------------------------
(* Dicts *)

Has(d, k) == k \in DOMAIN d

\* d.get(k, default)
Get(d, k, default) == IF Has(d, k) THEN d[k] ELSE default

EmptyDict == <<>>

Without(d, k) == [x \in DOMAIN d \ {k} |-> d[x]]

Min(a, b) == IF a <= b THEN a ELSE b

---------------------------------------------------------------------------
(* get_pois_from_overpass *)

\* translations.get(type_poi): None for a value the table does not hold.
translations(type_poi) ==
    CASE type_poi = "school" -> StrCell("école")
      [] type_poi = "hospital" -> StrCell("hôpitaux")
      [] type_poi = "park" -> StrCell("parc")
      [] type_poi = "station" -> StrCell("gare")
      [] type_poi = "Autre" -> StrCell("Autre")
      [] OTHER -> NoneCell

\* The order of the `or` chain.
TagPriority == <<"amenity", "tourism", "leisure", "railway">>

\* a.get(k1) or a.get(k2) or ... or "Autre": the first tag that is present
\* and not the empty string.
RECURSIVE FirstTag(_, _)
FirstTag(tags, i) ==
    IF i > Len(TagPriority) THEN "Autre"
    ELSE IF Get(tags, TagPriority[i], "") # "" THEN tags[TagPriority[i]]
    ELSE FirstTag(tags, i + 1)

\* The body of the for loop, for one element without a missing key.
Poi(element) ==
    [nom  |-> Get(Get(element, "tags", EmptyDict), "name", "Sans nom"),
     type |-> translations(FirstTag(element["tags"], 1)),
     lat  |-> element["lat"],
     lon  |-> element["lon"]]

ElementComplete(element) ==
    Has(element, "tags") /\ Has(element, "lat") /\ Has(element, "lon")

\* requests.get and response.json() are not guarded, nor are element["tags"],
\* element["lat"] and element["lon"].
get_pois_from_overpass(response) ==
    IF response.status # "ok"
    THEN [raised |-> TRUE, exc |-> "RequestException", value |-> <<>>]
    ELSE LET elements == Get(response.body, "elements", <<>>)
         IN  IF \E i \in DOMAIN elements : ~ElementComplete(elements[i])
             THEN [raised |-> TRUE, exc |-> "KeyError", value |-> <<>>]
             ELSE [raised |-> FALSE, exc |-> "",
                   value |-> [i \in DOMAIN elements |-> Poi(elements[i])]]

---------------------------------------------------------------------------
(* get_ville_data: the weather block *)

NumCell(n) == [t |-> "num", v |-> n]

MeteoBodyComplete(body) ==
    /\ Has(body, "current_weather")
    /\ Has(body["current_weather"], "temperature")
    /\ Has(body["current_weather"], "windspeed")
    /\ Has(body, "daily")
    /\ \A k \in {"time", "temperature_2m_min", "temperature_2m_max",
                 "precipitation_sum"} : Has(body["daily"], k)

\* zip(time, temperature_2m_min, temperature_2m_max, precipitation_sum)
Previsions(daily) ==
    LET n == Min(Min(Len(daily["time"]), Len(daily["temperature_2m_min"])),
                 Min(Len(daily["temperature_2m_max"]),
                     Len(daily["precipitation_sum"])))
    IN  [i \in 1..n |-> [date     |-> daily["time"][i],
                         temp_min |-> daily["temperature_2m_min"][i],
                         temp_max |-> daily["temperature_2m_max"][i],
                         precip   |-> daily["precipitation_sum"][i]]]

MeteoIndisponible ==
    [temp |-> StrCell("N/A"),
     statut |-> StrCell("Météo non disponible"),
     previsions |-> <<>>]

\* The try/except of lines 119-147: the bare except catches the exception of
\* requests.get, raise_for_status, r.json() and every KeyError.
Meteo(response) ==
    IF response.status = "ok" /\ MeteoBodyComplete(response.body)
    THEN [temp |-> NumCell(response.body["current_weather"]["temperature"]),
          statut |-> [t |-> "vent",
                      v |-> response.body["current_weather"]["windspeed"]],
          previsions |-> Previsions(response.body["daily"])]
    ELSE MeteoIndisponible

---------------------------------------------------------------------------
(* load_logement_data *)

FirstYear == 2014
LastYear == 2023

\* pd.concat(dfs) over range(2014, 2024), in that order: a file that does not
\* exist or that read_csv cannot parse contributes nothing; each row of the
\* others is tagged with the year of its file name.
RECURSIVE ConcatFrom(_, _)
ConcatFrom(files, annee) ==
    IF annee > LastYear THEN <<>>
    ELSE (IF files[annee].status = "ok"
          THEN [i \in DOMAIN files[annee].rows |->
                  [INSEE_COM   |-> files[annee].rows[i].INSEE_COM,
                   ANNEE       |-> annee,
                   Prixm2Moyen |-> files[annee].rows[i].Prixm2Moyen]]
          ELSE <<>>)
         \o ConcatFrom(files, annee + 1)

\* The empty DataFrame of line 95 and a concatenation without rows are both
\* the table for which logement_data.empty is true.
load_logement_data(files) == ConcatFrom(files, FirstYear)

---------------------------------------------------------------------------
(* get_ville_data: the resolver *)

PopulationMin == 20000

\* A bug: the population filter is dropped.
MutQualifies(c, ville) == Lower(c["nom"]) = Lower(ville)

\* c['nom'].lower() == ville.lower() and c.get('population', 0) >= 20000
Qualifies(c, ville) ==
    /\ Lower(c["nom"]) = Lower(ville)
    /\ Get(c, "population", 0) >= PopulationMin

\* next((c for c in response if ...), None): the index of the first candidate
\* that qualifies, 0 for None.
RECURSIVE FirstMatch(_, _, _)
FirstMatch(response, ville, i) ==
    IF i > Len(response) THEN 0
    ELSE IF Qualifies(response[i], ville) THEN i
    ELSE FirstMatch(response, ville, i + 1)

---------------------------------------------------------------------------
(* get_ville_data: density *)

\* round(p / s, 2) in hundredths, for s > 0.  A tie is rounded to the even
\* hundredth.
Round2(p, s) ==
    LET q == (100 * p) \div s
        r == (100 * p) % s
    IN  IF 2 * r > s \/ (2 * r = s /\ q % 2 = 1) THEN q + 1 ELSE q

\* round(population / surface, 2) if commune.get('surface') else "..."
Densite(commune) ==
    IF Get(commune, "surface", 0) # 0
    THEN NumCell(Round2(commune["population"], commune["surface"]))
    ELSE StrCell("Données indisponibles")

---------------------------------------------------------------------------
(* get_ville_data: the housing join *)

\* The maximum of the column ANNEE.
MaxAnnee(rows) ==
    CHOOSE a \in {rows[i].ANNEE : i \in DOMAIN rows} :
        \A i \in DOMAIN rows : rows[i].ANNEE <= a

\* A bug: the oldest year is kept.
MutRecent(logement) ==
    LET a == CHOOSE y \in {logement[i].ANNEE : i \in DOMAIN logement} :
                 \A i \in DOMAIN logement : logement[i].ANNEE >= y
        IsOld(row) == row.ANNEE = a
    IN  SelectSeq(logement, IsOld)

\* logement[logement['ANNEE'] == logement['ANNEE'].max()]
Recent(logement) ==
    LET IsRecent(row) == row.ANNEE = MaxAnnee(logement)
    IN  SelectSeq(logement, IsRecent)

\* Lines 149-154.  The assignment to logement_data['INSEE_COM'] rewrites the
\* column of the module-level table; when the lambda raises, apply() has
\* assigned nothing.
HousingJoin(table, code_insee) ==
    IF table = <<>>
    THEN [raised |-> FALSE, table |-> table, logement_info |-> EmptyDict]
    ELSE IF \E i \in DOMAIN table : NormalizeCell(table[i].INSEE_COM).raised
    THEN [raised |-> TRUE, table |-> table, logement_info |-> EmptyDict]
    ELSE LET normalized ==
                 [i \in DOMAIN table |->
                    [table[i] EXCEPT
                       !.INSEE_COM = NormalizeCell(table[i].INSEE_COM).value]]
             Matches(row) == row.INSEE_COM.t = "str"
                             /\ row.INSEE_COM.v = code_insee
             logement == SelectSeq(normalized, Matches)
         IN  [raised |-> FALSE,
              table |-> normalized,
              logement_info |-> IF logement = <<>> THEN EmptyDict
                                ELSE Recent(logement)[1]]

---------------------------------------------------------------------------
(* get_ville_data *)

NoCommune == EmptyDict

Raised(exc, commune, table) ==
    [outcome |-> "raised", exc |-> exc, commune |-> commune,
     value |-> EmptyDict, table |-> table]

ReturnNone(table) ==
    [outcome |-> "none", exc |-> "", commune |-> NoCommune,
     value |-> EmptyDict, table |-> table]

\* The call on the table `table`, the services answering geo, meteo and
\* overpass.  outcome is "none" (return None), "record" (the dict of lines
\* 156-170) or "raised"; table is the module-level table after the call.
get_ville_data(table, ville, geo, meteo, overpass) ==
    IF geo.status # "ok" THEN Raised("RequestException", NoCommune, table)
    ELSE IF geo.payload = <<>> THEN ReturnNone(table)
    ELSE IF geo.json = "object" THEN Raised("TypeError", NoCommune, table)
    ELSE LET k == FirstMatch(geo.payload, ville, 1)
         IN  IF k = 0 THEN ReturnNone(table)
             ELSE LET commune == geo.payload[k]
                      join == HousingJoin(table, commune["code"])
                      pois == get_pois_from_overpass(overpass)
                  IN  IF ~Has(commune, "population")
                         /\ Get(commune, "surface", 0) # 0
                      THEN Raised("KeyError", commune, table)
                      ELSE IF join.raised
                      THEN Raised("ValueError", commune, table)
                      ELSE IF ~Has(commune, "population")
                              \/ ~Has(commune, "surface")
                      THEN Raised("KeyError", commune, join.table)
                      ELSE IF pois.raised
                      THEN Raised(pois.exc, commune, join.table)
                      ELSE [outcome |-> "record",
                            exc |-> "",
                            commune |-> commune,
                            value |->
                              [nom |-> commune["nom"],
                               population |-> commune["population"],
                               superficie_km2 |-> commune["surface"],
                               densite_hab_km2 |-> Densite(commune),
                               latitude |-> commune["centre"]["coordinates"][2],
                               longitude |-> commune["centre"]["coordinates"][1],
                               meteo |-> Meteo(meteo),
                               logement |-> join.logement_info,
                               pois |-> pois.value],
                            table |-> join.table]

---------------------------------------------------------------------------
(* The script: lines 99 and 327-328 *)

NoCall == [done |-> FALSE]

Call(args, r) ==
    [done |-> TRUE, args |-> args,
     ret |-> [outcome |-> r.outcome, exc |-> r.exc, commune |-> r.commune,
              value |-> r.value]]

Args(ville, geo, meteo, overpass) ==
    [ville |-> ville, geo |-> geo, meteo |-> meteo, overpass |-> overpass]

\* data_ville1 = get_ville_data(ville1)
GetVilleData1(a) ==
    /\ pc = "start"
    /\ LET r == get_ville_data(logement_data, a.ville, a.geo, a.meteo, a.overpass)
       IN  /\ call1' = Call(a, r)
           /\ logement_data' = r.table
           /\ pc' = IF r.outcome = "raised" THEN "aborted" ELSE "called1"
    /\ UNCHANGED <<cache, call2>>

\* data_ville2 = get_ville_data(ville2)
GetVilleData2(a) ==
    /\ pc = "called1"
    /\ LET r == get_ville_data(logement_data, a.ville, a.geo, a.meteo, a.overpass)
       IN  /\ call2' = Call(a, r)
           /\ logement_data' = r.table
           /\ pc' = IF r.outcome = "raised" THEN "aborted" ELSE "called2"
    /\ UNCHANGED <<cache, call1>>

\* A widget interaction runs the script again: st.cache_data hands line 99 a
\* fresh copy of the cached table.
Rerun ==
    /\ pc # "start"
    /\ logement_data' = cache
    /\ pc' = "start"
    /\ call1' = NoCall
    /\ call2' = NoCall
    /\ UNCHANGED cache

InitWith(tables) ==
    /\ cache \in tables
    /\ logement_data = cache
    /\ pc = "start"
    /\ call1 = NoCall
    /\ call2 = NoCall

---------------------------------------------------------------------------
(* Inputs *)

MaxDays == 2
MaxRows == 1
MaxCands == 2
MaxElems == 2

SeqsUpTo(S, n) == UNION {[1..k -> S] : k \in 0..n}

Lyon == <<"L", "y", "o", "n">>
LYON == <<"L", "Y", "O", "N">>
lyon == <<"l", "y", "o", "n">>
Paris == <<"P", "a", "r", "i", "s">>

Code69123 == <<"6", "9", "1", "2", "3">>
Code01001 == <<"0", "1", "0", "0", "1">>
Code1001 == <<"1", "0", "0", "1">>
Code1001Dot0 == <<"1", "0", "0", "1", ".", "0">>
Code2A004 == <<"2", "A", "0", "0", "4">>

\* A commune of the geography service; a population or a surface of -1 stands
\* for a commune object without that key.
Commune(nom, code, population, surface) ==
    LET full == [nom |-> nom, code |-> code, population |-> population,
                 surface |-> surface,
                 centre |-> [coordinates |-> <<48357, 457640>>]]
        keys == {"nom", "code", "centre"}
                  \cup (IF population = -1 THEN {} ELSE {"population"})
                  \cup (IF surface = -1 THEN {} ELSE {"surface"})
    IN  [k \in keys |-> full[k]]

GeoException == [json |-> "array", payload |-> <<>>, status |-> "exception"]
\* A JSON object (an error message) instead of an array: payload holds its
\* items.
GeoErrorObject ==
    [json |-> "object",
     payload |-> <<[key |-> "message", value |-> "Bad Request"]>>,
     status |-> "ok"]
GeoList(l) == [json |-> "array", payload |-> l, status |-> "ok"]

\* The weather service's answer with n days.
MeteoBody(n) ==
    [current_weather |-> [temperature |-> 12, windspeed |-> 9],
     daily |-> [time |-> [i \in 1..n |-> i],
                temperature_2m_min |-> [i \in 1..n |-> 5 + i],
                temperature_2m_max |-> [i \in 1..n |-> 15 + i],
                precipitation_sum |-> [i \in 1..n |-> i - 1]]]

MeteoOk(body) == [status |-> "ok", body |-> body]
MeteoHttpError == [status |-> "http_error", body |-> EmptyDict]
MeteoException == [status |-> "exception", body |-> EmptyDict]

\* Bodies with one key missing.
MeteoBroken ==
    LET b == MeteoBody(MaxDays)
    IN  {Without(b, "current_weather"), Without(b, "daily"),
         [b EXCEPT !.current_weather = Without(b.current_weather, "temperature")],
         [b EXCEPT !.current_weather = Without(b.current_weather, "windspeed")],
         [b EXCEPT !.daily = Without(b.daily, "time")],
         [b EXCEPT !.daily = Without(b.daily, "precipitation_sum")]}

MeteoResponses ==
    {MeteoOk(MeteoBody(n)) : n \in 0..MaxDays}
      \cup {MeteoOk(b) : b \in MeteoBroken}
      \cup {MeteoHttpError, MeteoException}

\* An element's tags; "-" stands for a tag the element does not carry.
Tags(name, amenity, tourism, leisure, railway) ==
    LET full == [name |-> name, amenity |-> amenity, tourism |-> tourism,
                 leisure |-> leisure, railway |-> railway]
    IN  [k \in {x \in DOMAIN full : full[x] # "-"} |-> full[k]]

Element(tags) == [tags |-> tags, lat |-> 457700, lon |-> 48400]

ElementSchool == Element(Tags("Ecole A", "school", "-", "-", "-"))

OverpassOk(elements) == [status |-> "ok", body |-> [elements |-> elements]]
OverpassNoElements == [status |-> "ok", body |-> [version |-> "0.6"]]
OverpassException == [status |-> "exception", body |-> EmptyDict]

OverpassBasic == OverpassOk(<<ElementSchool>>)

\* The csv files of the years `years`, each missing, unreadable or holding at
\* most maxRows rows whose INSEE_COM cells are drawn from `cells`.
FileChoices(cells, maxRows) ==
    {[status |-> "missing", rows |-> <<>>],
     [status |-> "unreadable", rows |-> <<>>]}
      \cup {[status |-> "ok",
             rows |-> [i \in DOMAIN cs |->
                         [INSEE_COM |-> cs[i], Prixm2Moyen |-> 2000 + 100 * i]]] :
            cs \in SeqsUpTo(cells, maxRows)}

FilesOver(cells, years, maxRows) ==
    {[y \in FirstYear..LastYear |->
        IF y \in years THEN f[y] ELSE [status |-> "missing", rows |-> <<>>]] :
     f \in [years -> FileChoices(cells, maxRows)]}

Tables(cells, years, maxRows) ==
    {load_logement_data(files) : files \in FilesOver(cells, years, maxRows)}

CommuneLyon == Commune(Lyon, Code69123, 516092, 4787)

---------------------------------------------------------------------------
(* Spec: every source may fail *)

GeoGeneral ==
    {GeoException, GeoErrorObject, GeoList(<<>>),
     GeoList(<<Commune(Lyon, Code69123, 19999, 4787)>>)}
      \cup {GeoList(<<Commune(Lyon, Code69123, 516092, s)>>) : s \in {-1, 0, 4787}}

OverpassGeneral ==
    {OverpassBasic, OverpassNoElements, OverpassException,
     OverpassOk(<<Without(ElementSchool, "tags")>>),
     OverpassOk(<<ElementSchool, Without(ElementSchool, "lat")>>)}

ArgsGeneral ==
    {Args(Lyon, g, m, o) : g \in GeoGeneral, m \in MeteoResponses,
                           o \in OverpassGeneral}

TablesGeneral == Tables({IntCell(69123), StrCell(Code2A004)}, {2023}, 1)

Init == InitWith(TablesGeneral)

Next ==
    \/ \E a \in ArgsGeneral : GetVilleData1(a)
    \/ \E a \in ArgsGeneral : GetVilleData2(a)
    \/ Rerun

Spec == Init /\ [][Next]_vars

---------------------------------------------------------------------------
(* SpecResolver: the lists of candidates of the geography service *)

Candidates ==
    {Commune(n, Code69123, p, 4787) :
       n \in {Lyon, LYON, Paris}, p \in {-1, 19999, 20000, 516092}}

ArgsResolver ==
    {Args(v, GeoList(l), MeteoOk(MeteoBody(MaxDays)), OverpassBasic) :
       v \in {Lyon, lyon}, l \in SeqsUpTo(Candidates, MaxCands)}

ArgsLyon ==
    {Args(Lyon, GeoList(<<CommuneLyon>>), MeteoOk(MeteoBody(MaxDays)),
          OverpassBasic)}

InitResolver == InitWith(Tables({IntCell(69123)}, {2023}, 1))

NextResolver ==
    \/ \E a \in ArgsResolver : GetVilleData1(a)
    \/ \E a \in ArgsLyon : GetVilleData2(a)
    \/ Rerun

SpecResolver == InitResolver /\ [][NextResolver]_vars

---------------------------------------------------------------------------
(* SpecHousing: the housing tables *)

CellsHousing ==
    {IntCell(1001), FloatCell(1001), StrCell(Code1001Dot0), StrCell(Code01001),
     IntCell(69123), NaNCell, StrCell(Code2A004)}

ArgsHousing ==
    {Args(Lyon, g, MeteoOk(MeteoBody(MaxDays)), OverpassBasic) :
       g \in {GeoList(<<>>)}
               \cup {GeoList(<<Commune(Lyon, c, 516092, 4787)>>) :
                       c \in {Code01001, Code1001, Code69123}}}

InitHousing == InitWith(Tables(CellsHousing, {2022, 2023}, MaxRows))

NextHousing ==
    \/ \E a \in ArgsHousing : GetVilleData1(a)
    \/ \E a \in ArgsHousing : GetVilleData2(a)
    \/ Rerun

SpecHousing == InitHousing /\ [][NextHousing]_vars

---------------------------------------------------------------------------
(* SpecPois: the elements of the Overpass service *)

TagDicts ==
    {Tags(n, a, t, l, r) :
       n \in {"-", "Gare"}, a \in {"-", "school", "cafe", ""},
       t \in {"-", "museum"}, l \in {"-", "park"}, r \in {"-", "station"}}

Elements ==
    {Element(tags) : tags \in TagDicts}
      \cup {Without(ElementSchool, k) : k \in {"tags", "lat", "lon"}}

ArgsPois ==
    {Args(Lyon, GeoList(<<CommuneLyon>>), MeteoOk(MeteoBody(MaxDays)), o) :
       o \in {OverpassOk(l) : l \in SeqsUpTo(Elements, MaxElems)}
               \cup {OverpassNoElements, OverpassException}}

InitPois == InitWith(Tables({IntCell(69123)}, {2023}, 1))

NextPois ==
    \/ \E a \in ArgsPois : GetVilleData1(a)
    \/ \E a \in ArgsLyon : GetVilleData2(a)
    \/ Rerun

SpecPois == InitPois /\ [][NextPois]_vars

---------------------------------------------------------------------------
(* Properties *)

Calls == {call1, call2}

Resolved(c) == c.done /\ c.ret.commune # NoCommune

OverpassFaulty(o) ==
    \/ o.status # "ok"
    \/ \E i \in DOMAIN Get(o.body, "elements", <<>>) :
         ~ElementComplete(o.body["elements"][i])

MeteoFaulty(m) == m.status # "ok" \/ ~MeteoBodyComplete(m.body)

\* Every INSEE_COM cell of the loaded table is empty or numeric.
TableNumeric ==
    \A i \in DOMAIN cache : ~NormalizeCell(cache[i].INSEE_COM).raised

\* C1: when the Overpass call fails (network error, timeout, malformed
\* response, element without tags, lat or lon), get_pois_from_overpass
\* returns the empty list and does not raise, so that get_ville_data on a
\* resolved city returns a record, whose pois are the empty list.  (Stated for
\* a commune with a surface and a numeric housing table, so that nothing else
\* can fail.)
C1_PoisDegrade ==
    \A c \in Calls :
        (/\ Resolved(c)
         /\ OverpassFaulty(c.args.overpass)
         /\ Has(c.ret.commune, "surface")
         /\ TableNumeric)
        => /\ ~get_pois_from_overpass(c.args.overpass).raised
           /\ c.ret.outcome = "record"
           /\ c.ret.value.pois = <<>>

\* C2: for a city that resolves, when the weather call raises, times out,
\* answers an error status or a payload without an expected key,
\* get_ville_data returns a record whose temperature and status are the
\* sentinels and whose forecast is empty.  (Stated for a commune with a
\* surface and a numeric housing table.)
C2_WeatherDegrade ==
    \A c \in Calls :
        (/\ Resolved(c)
         /\ MeteoFaulty(c.args.meteo)
         /\ Has(c.ret.commune, "surface")
         /\ TableNumeric)
        => /\ c.ret.outcome = "record"
           /\ c.ret.value.meteo.temp = StrCell("N/A")
           /\ c.ret.value.meteo.statut = StrCell("Météo non disponible")
           /\ c.ret.value.meteo.previsions = <<>>

\* The indices of the candidates whose name is the input up to case and whose
\* population is at least 20000.
QualifyingIndices(c) ==
    {i \in DOMAIN c.args.geo.payload :
        LET cand == c.args.geo.payload[i]
        IN  /\ Lower(cand["nom"]) = Lower(c.args.ville)
            /\ "population" \in DOMAIN cand
            /\ cand["population"] >= 20000}

\* C3: for every list of candidates the geography service returns, the
\* resolver selects the first candidate, in response order, whose name equals
\* the input case-insensitively and whose population is >= 20000; when no
\* candidate satisfies both, get_ville_data returns None.
C3_ResolverFirstQualifying ==
    \A c \in Calls :
        (c.done /\ c.args.geo.status = "ok" /\ c.args.geo.json = "array")
        => LET Q == QualifyingIndices(c)
           IN  IF Q = {}
               THEN c.ret.outcome = "none" /\ c.ret.commune = NoCommune
               ELSE /\ c.ret.outcome # "none"
                    /\ \E i \in Q : /\ \A j \in Q : i <= j
                                    /\ c.ret.commune = c.args.geo.payload[i]

\* The first name match is below the threshold and is skipped for the second
\* candidate, whose name differs from the input in case.
C3_Witness ==
    /\ call1.done
    /\ call1.args.ville = lyon
    /\ Len(call1.args.geo.payload) = 2
    /\ call1.args.geo.payload[1] = Commune(Lyon, Code69123, 19999, 4787)
    /\ call1.args.geo.payload[2] = Commune(LYON, Code69123, 20000, 4787)
    /\ call1.ret.outcome = "record"
    /\ call1.ret.commune = call1.args.geo.payload[2]

\* C4: when the call to the geography service fails (network error, service
\* error, body that is not JSON or not an array of communes), get_ville_data
\* returns None and raises nothing.
C4_GeoFailureNotFound ==
    \A c \in Calls :
        (c.done /\ (c.args.geo.status # "ok" \/ c.args.geo.json # "array"))
        => c.ret.outcome = "none"

\* The rows of the loaded table whose normalised INSEE code is `code`.
RowsOfCode(code) ==
    {i \in DOMAIN cache :
        LET n == NormalizeCell(cache[i].INSEE_COM)
        IN  ~n.raised /\ n.value.t = "str" /\ n.value.v = code}

\* C5: the housing sub-record of a returned record is a row of the table
\* whose normalised INSEE code equals the resolved code and whose year is the
\* maximum year present for that code (the row as the table holds it after
\* the call, its INSEE code normalised); it is empty when no row matches the
\* code or the table is empty.
C5_HousingMostRecent ==
    \A c \in Calls :
        (c.done /\ c.ret.outcome = "record")
        => LET M == RowsOfCode(c.ret.commune["code"])
           IN  IF M = {}
               THEN c.ret.value.logement = EmptyDict
               ELSE \E i \in M :
                      /\ \A j \in M : cache[j].ANNEE <= cache[i].ANNEE
                      /\ c.ret.value.logement = logement_data[i]
                      /\ c.ret.value.logement.ANNEE = cache[i].ANNEE
                      /\ c.ret.value.logement.Prixm2Moyen = cache[i].Prixm2Moyen

\* The table holds the resolved code for 2022 and for 2023, and the
\* sub-record is the row of 2023.
C5_Witness ==
    /\ call1.done
    /\ call1.ret.outcome = "record"
    /\ \E i, j \in RowsOfCode(call1.ret.commune["code"]) :
          cache[i].ANNEE = 2022 /\ cache[j].ANNEE = 2023
    /\ call1.ret.value.logement # EmptyDict
    /\ call1.ret.value.logement.ANNEE = 2023

\* C6: the category of every point of interest is the translation of the
\* first non-empty tag in the order amenity, tourism, leisure, railway; a raw
\* value the table does not hold, and an element without any of the four
\* tags, give "Autre", never None.
C6_Category ==
    \A c \in Calls :
        (c.done /\ c.ret.outcome = "record")
        => \A i \in DOMAIN c.ret.value.pois :
              LET tags == c.args.overpass.body["elements"][i]["tags"]
                  Val(k) == IF k \in DOMAIN tags THEN tags[k] ELSE ""
                  raw == IF Val("amenity") # "" THEN Val("amenity")
                         ELSE IF Val("tourism") # "" THEN Val("tourism")
                         ELSE IF Val("leisure") # "" THEN Val("leisure")
                         ELSE Val("railway")
                  expected == CASE raw = "school" -> "école"
                                []  raw = "hospital" -> "hôpitaux"
                                []  raw = "park" -> "parc"
                                []  raw = "station" -> "gare"
                                []  OTHER -> "Autre"
              IN  /\ c.ret.value.pois[i].type.t = "str"
                  /\ c.ret.value.pois[i].type.v = expected

\* C7: no call of get_ville_data, and no sequence of calls, changes a cell of
\* the housing table: the table is at all times the one that was loaded.
C7_TableReadOnly == logement_data = cache

\* C8: two calls in a row with the same name, the services and the csv files
\* answering the same both times, return the same record field for field,
\* the housing sub-record included.
C8_Idempotent ==
    (call1.done /\ call2.done /\ call1.args = call2.args)
    => call1.ret = call2.ret

\* The first call has rewritten the INSEE column of the shared table, and the
\* second call, with the same inputs, returns a housing sub-record.
C8_Witness ==
    /\ call1.done /\ call2.done
    /\ call1.args = call2.args
    /\ logement_data # cache
    /\ call2.ret.outcome = "record"
    /\ call2.ret.value.logement # EmptyDict

\* C9: normalisation maps a float-like code string to the same 5-character
\* string as its clean integer form, and the join compares the keys
\* normalised on both sides: the sub-record is empty exactly when no row's
\* normalised code equals the normalised resolver code.
C9_JoinOnNormalizedKeys ==
    /\ \A s \in {Code1001, Code01001, Code69123} :
          LET n == NormalizeCell(StrCell(s \o <<".", "0">>))
          IN  /\ ~n.raised
              /\ n = NormalizeCell(StrCell(s))
              /\ Len(n.value.v) = 5
    /\ \A c \in Calls :
          (c.done /\ c.ret.outcome = "record")
          => LET key == NormalizeCell(StrCell(c.ret.commune["code"]))
             IN  ~key.raised
                 /\ (c.ret.value.logement = EmptyDict
                       <=> RowsOfCode(key.value.v) = {})

\* C10: the density of a returned record is population / surface rounded to
\* two decimals when the surface is present and > 0, and the sentinel
\* otherwise; a commune without a surface does not make the call fail.
\* (Stated for a healthy Overpass service and a numeric housing table.)
C10_Density ==
    \A c \in Calls :
        (/\ Resolved(c)
         /\ ~OverpassFaulty(c.args.overpass)
         /\ TableNumeric)
        => /\ c.ret.outcome = "record"
           /\ LET d == c.ret.value.densite_hab_km2
                  p == c.ret.commune["population"]
              IN  IF Has(c.ret.commune, "surface") /\ c.ret.commune["surface"] > 0
                  THEN LET su == c.ret.commune["surface"]
                       IN  /\ d.t = "num"
                           /\ 2 * (100 * p - d.v * su) <= su
                           /\ 2 * (d.v * su - 100 * p) <= su
                  ELSE d = StrCell("Données indisponibles")

===========================================================================
